---- MODULE Spec2Model ----
(***************************************************************************)
(* Model of src/app.py: a Streamlit question-answering page over a FAISS   *)
(* index built from data.txt.                                              *)
(*                                                                         *)
(* Text is modelled by TLA+ strings, which are ASCII.  The two non-ASCII   *)
(* letters of the keywords are written with stand-in characters:           *)
(*      dotless i (U+0131) is written "1",   s-cedilla (U+015F) is "5".    *)
(* Neither digit occurs in any modelled text for another purpose.  The     *)
(* other accented letters, which occur only in the canned suffixes, are    *)
(* written by their base letters.                                          *)
(***************************************************************************)
EXTENDS Integers, Sequences, FiniteSets, TLC

Min(a, b) == IF a < b THEN a ELSE b

Max(a, b) == IF a > b THEN a ELSE b

(***************************************************************************)
(* Python string primitives.                                               *)
(***************************************************************************)
\* s[i], 1-based.
Char(s, i) == SubSeq(s, i, i)

\* s[:n]: slicing never fails, a short string is returned whole.
Slice(s, n) == SubSeq(s, 1, Min(n, Len(s)))

\* The characters str.strip(), str.split() and the regex class \s treat as
\* whitespace, among those of the modelled alphabet.
IsSpace(c) == c \in {" ", "\n", "\t"}

UpperCase == "ABCDEFGHIJKLMNOPQRSTUVWXYZ"

LowerCase == "abcdefghijklmnopqrstuvwxyz"

\* str.lower() on one character: A-Z map to a-z (so "I" becomes the dotted
\* "i", never the dotless one); every other modelled character is unchanged.
LowerChar(c) ==
    IF \E k \in 1..Len(UpperCase) : Char(UpperCase, k) = c
    THEN Char(LowerCase, CHOOSE k \in 1..Len(UpperCase) : Char(UpperCase, k) = c)
    ELSE c

\* str.lower(), computed by halves to keep the evaluation shallow.
RECURSIVE Lower(_)
Lower(s) ==
    IF Len(s) = 0 THEN ""
    ELSE IF Len(s) = 1 THEN LowerChar(s)
    ELSE LET h == Len(s) \div 2
         IN Lower(SubSeq(s, 1, h)) \o Lower(SubSeq(s, h + 1, Len(s)))

\* kw in s
Contains(s, kw) ==
    \E i \in 1..(Len(s) - Len(kw) + 1) : SubSeq(s, i, i + Len(kw) - 1) = kw

\* s.startswith(p)
StartsWith(s, p) == Len(s) >= Len(p) /\ SubSeq(s, 1, Len(p)) = p

\* s.strip()
Strip(s) ==
    LET keep == {i \in 1..Len(s) : ~IsSpace(Char(s, i))}
    IN IF keep = {} THEN ""
       ELSE SubSeq(s, CHOOSE i \in keep : \A j \in keep : i <= j,
                      CHOOSE i \in keep : \A j \in keep : i >= j)

\* len(s.split()): the number of maximal runs of non-whitespace.
WordCount(s) ==
    Cardinality({i \in 1..Len(s) :
                    /\ ~IsSpace(Char(s, i))
                    /\ (i = 1 \/ IsSpace(Char(s, i - 1)))})

\* s.split('\n'): the pieces between newlines, empty pieces included.
RECURSIVE SplitLinesFrom(_, _)
SplitLinesFrom(s, from) ==
    LET nl == {i \in from..Len(s) : Char(s, i) = "\n"}
    IN IF nl = {} THEN <<SubSeq(s, from, Len(s))>>
       ELSE LET i == CHOOSE k \in nl : \A j \in nl : k <= j
            IN <<SubSeq(s, from, i - 1)>> \o SplitLinesFrom(s, i + 1)

SplitLines(s) == SplitLinesFrom(s, 1)

\* ' '.join(seq)
RECURSIVE JoinSpace(_)
JoinSpace(seq) ==
    IF Len(seq) = 0 THEN ""
    ELSE IF Len(seq) = 1 THEN seq[1]
    ELSE seq[1] \o " " \o JoinSpace(Tail(seq))

\* '\n'.join(seq)
RECURSIVE JoinNewline(_)
JoinNewline(seq) ==
    IF Len(seq) = 0 THEN ""
    ELSE IF Len(seq) = 1 THEN seq[1]
    ELSE seq[1] \o "\n" \o JoinNewline(Tail(seq))

(***************************************************************************)
(* The regular expressions of clean_html_tags.                             *)
(***************************************************************************)
\* The leftmost match of <[^>]+> starting at or after `from`, as <<i, j>>
\* (s[i] = "<", s[j] = ">", at least one character between them and no ">"
\* among them), or <<0, 0>> when there is none.
TagMatchFrom(s, from) ==
    LET starts == {i \in from..Len(s) :
                     /\ Char(s, i) = "<"
                     /\ \E j \in (i + 2)..Len(s) :
                          /\ Char(s, j) = ">"
                          /\ \A k \in (i + 1)..(j - 1) : Char(s, k) # ">"}
    IN IF starts = {} THEN <<0, 0>>
       ELSE LET i == CHOOSE a \in starts : \A b \in starts : a <= b
                ends == {j \in (i + 2)..Len(s) : Char(s, j) = ">"}
            IN <<i, CHOOSE a \in ends : \A b \in ends : a <= b>>

\* len(re.findall(r'<[^>]+>', text)): non-overlapping matches, left to right.
RECURSIVE TagCountFrom(_, _)
TagCountFrom(s, from) ==
    LET m == TagMatchFrom(s, from)
    IN IF m[1] = 0 THEN 0 ELSE 1 + TagCountFrom(s, m[2] + 1)

TagCount(s) == TagCountFrom(s, 1)

\* re.sub(r'<[^>]+>', '', text)
RECURSIVE RemoveTagsFrom(_, _)
RemoveTagsFrom(s, from) ==
    LET m == TagMatchFrom(s, from)
    IN IF m[1] = 0 THEN SubSeq(s, from, Len(s))
       ELSE SubSeq(s, from, m[1] - 1) \o RemoveTagsFrom(s, m[2] + 1)

RemoveTags(s) == RemoveTagsFrom(s, 1)

\* re.sub(r'\s+', ' ', text): every maximal run of whitespace becomes one
\* space.  Computed by halves; two halves that meet inside a run share its
\* single space.
RECURSIVE CollapseSpaces(_)
CollapseSpaces(s) ==
    IF Len(s) = 0 THEN ""
    ELSE IF Len(s) = 1 THEN (IF IsSpace(s) THEN " " ELSE s)
    ELSE LET h == Len(s) \div 2
             a == CollapseSpaces(SubSeq(s, 1, h))
             b == CollapseSpaces(SubSeq(s, h + 1, Len(s)))
         IN IF Char(a, Len(a)) = " " /\ Char(b, 1) = " "
            THEN a \o SubSeq(b, 2, Len(b))
            ELSE a \o b

(***************************************************************************)
(* clean_html_tags (src/app.py 18-28).                                     *)
(***************************************************************************)
MinTagCount == 3

\* clean_html_tags without the early return of lines 22-23.
clean_html_tags_always(text) == Strip(CollapseSpaces(RemoveTags(text)))

clean_html_tags(text) ==
    IF TagCount(text) < MinTagCount
    THEN text
    ELSE Strip(CollapseSpaces(RemoveTags(text)))

(***************************************************************************)
(* generate_response (src/app.py 61-103).                                  *)
(***************************************************************************)
MinLineLen == 10

MaxMeaningfulLines == 5

FallbackLen == 500

\* MeaningfulLines with the word test its comment describes, "at least 3
\* words", in place of the test of line 77.
RECURSIVE MeaningfulLinesAtLeast3(_)
MeaningfulLinesAtLeast3(lines) ==
    IF Len(lines) = 0 THEN <<>>
    ELSE LET line == Strip(Head(lines))
         IN IF \/ Len(line) < MinLineLen
               \/ StartsWith(line, "http")
               \/ Contains(Lower(line), "badge")
            THEN MeaningfulLinesAtLeast3(Tail(lines))
            ELSE IF WordCount(line) >= 3
                 THEN <<line>> \o MeaningfulLinesAtLeast3(Tail(lines))
                 ELSE MeaningfulLinesAtLeast3(Tail(lines))

\* The loop of lines 72-78 over the lines still to visit: the kept lines,
\* trimmed, in their order.
RECURSIVE MeaningfulLines(_)
MeaningfulLines(lines) ==
    IF Len(lines) = 0 THEN <<>>
    ELSE LET line == Strip(Head(lines))
         IN IF \/ Len(line) < MinLineLen
               \/ StartsWith(line, "http")
               \/ Contains(Lower(line), "badge")
            THEN MeaningfulLines(Tail(lines))
            ELSE IF WordCount(line) > 3
                 THEN <<line>> \o MeaningfulLines(Tail(lines))
                 ELSE MeaningfulLines(Tail(lines))

\* meaningful_text after line 83: the text the templates wrap.
MeaningfulText(context) ==
    LET clean_context == clean_html_tags(context)
        meaningful_lines == MeaningfulLines(SplitLines(clean_context))
        meaningful_text ==
            JoinSpace(SubSeq(meaningful_lines, 1,
                             Min(MaxMeaningfulLines, Len(meaningful_lines))))
    IN IF meaningful_text = ""
       THEN Slice(clean_context, FallbackLen)
       ELSE meaningful_text

\* generate_response returning the bare text, no template around it.
generate_response_bare(context, question) ==
    Slice(MeaningfulText(context), 500)

\* generate_response testing the "rag" keyword before the others.
generate_response_rag_first(context, question) ==
    LET meaningful_text == MeaningfulText(context)
        question_lower == Lower(question)
    IN IF Contains(question_lower, "rag")
       THEN Slice(meaningful_text, 350)
                \o "... [RAG mimarisi detaylar1 icin sonuclara bak1n]"
       ELSE IF Contains(question_lower, "nedir") \/ Contains(question_lower, "ne demek")
       THEN Slice(meaningful_text, 400)
                \o "... [Devam1 icin detayl1 sonuclara bak1n]"
       ELSE IF \/ Contains(question_lower, "nas1l")
               \/ Contains(question_lower, "yap1l1r")
               \/ Contains(question_lower, "kurulur")
       THEN Slice(meaningful_text, 450)
                \o "... [Ad1mlar icin detayl1 sonuclar1 inceleyin]"
       ELSE IF \/ Contains(question_lower, "ne i5e yarar")
               \/ Contains(question_lower, "kullan1m")
       THEN Slice(meaningful_text, 400)
                \o "... [Kullan1m detaylar1 icin yukar1daki sonuclara bak1n]"
       ELSE IF \/ Contains(question_lower, "bile5en")
               \/ Contains(question_lower, "component")
       THEN Slice(meaningful_text, 380)
                \o "... [Bile5en listesi icin detayl1 sonuclar1 gorun]"
       ELSE Slice(meaningful_text, 500)
                \o "... [Detayl1 bilgi icin yukar1daki sonuclar1 okuyun]"

generate_response(context, question) ==
    LET meaningful_text == MeaningfulText(context)
        question_lower == Lower(question)
    IN IF Contains(question_lower, "nedir") \/ Contains(question_lower, "ne demek")
       THEN Slice(meaningful_text, 400)
                \o "... [Devam1 icin detayl1 sonuclara bak1n]"
       ELSE IF \/ Contains(question_lower, "nas1l")
               \/ Contains(question_lower, "yap1l1r")
               \/ Contains(question_lower, "kurulur")
       THEN Slice(meaningful_text, 450)
                \o "... [Ad1mlar icin detayl1 sonuclar1 inceleyin]"
       ELSE IF \/ Contains(question_lower, "ne i5e yarar")
               \/ Contains(question_lower, "kullan1m")
       THEN Slice(meaningful_text, 400)
                \o "... [Kullan1m detaylar1 icin yukar1daki sonuclara bak1n]"
       ELSE IF \/ Contains(question_lower, "bile5en")
               \/ Contains(question_lower, "component")
       THEN Slice(meaningful_text, 380)
                \o "... [Bile5en listesi icin detayl1 sonuclar1 gorun]"
       ELSE IF Contains(question_lower, "rag")
       THEN Slice(meaningful_text, 350)
                \o "... [RAG mimarisi detaylar1 icin sonuclara bak1n]"
       ELSE Slice(meaningful_text, 500)
                \o "... [Detayl1 bilgi icin yukar1daki sonuclar1 okuyun]"

(***************************************************************************)
(* The files the page works on: data.txt and the faiss_index directory.    *)
(***************************************************************************)
\* chunk_size of the splitter (line 40).
chunk_size == 1000

\* k of similarity_search (line 117).
TopK == 3

\* Shortest cleaned passage shown under the answer is one longer (line 138).
MinPassageLen == 50

\* No faiss_index directory.
NoIndex == [exists |-> FALSE, complete |-> FALSE, build |-> 0, chunks |-> <<>>]

\* What shutil.rmtree, the embedding model and FAISS.save_local may do; each
\* call sits in a try block of the source, and which outcome happens is the
\* environment's choice.
RmOutcomes == {"removed", "failed_untouched", "failed_partway"}

SaveOutcomes == {"saved", "failed_untouched", "failed_partway"}

\* shutil.rmtree("faiss_index") at line 172; a failure part-way leaves the
\* directory with some of its files gone.
rmtree(index, outcome) ==
    IF outcome = "removed" THEN NoIndex
    ELSE IF outcome = "failed_untouched" THEN index
    ELSE [index EXCEPT !.complete = FALSE]

\* RecursiveCharacterTextSplitter on a text shorter than chunk_size: the
\* pieces are merged back into one chunk, trimmed, and a blank text gives no
\* chunk.  (The splitting of longer texts is the Split... machine below.)
ShortDocChunks(text) ==
    IF Strip(text) = "" THEN <<>> ELSE <<Strip(text)>>

\* get_text_chunks (lines 31-45): [ok |-> FALSE] stands for None.
get_text_chunks(text_file) ==
    IF ~text_file.exists
    THEN [ok |-> FALSE, chunks |-> <<>>]
    ELSE [ok |-> TRUE, chunks |-> ShortDocChunks(clean_html_tags(text_file.content))]

\* get_vector_store (lines 48-58): vector_store FALSE stands for None.
get_vector_store(text_chunks, index, build, embed_ok, save) ==
    IF ~embed_ok
    THEN [vector_store |-> FALSE, index |-> index]
    ELSE IF save = "saved"
    THEN [vector_store |-> TRUE,
          index |-> [exists |-> TRUE, complete |-> TRUE, build |-> build,
                     chunks |-> text_chunks]]
    ELSE IF save = "failed_untouched"
    THEN [vector_store |-> FALSE, index |-> index]
    ELSE [vector_store |-> FALSE,
          index |-> [exists |-> TRUE, complete |-> FALSE, build |-> build,
                     chunks |-> text_chunks]]

\* RebuildHandler with "if text_chunks is not None" for the truth test of
\* line 180: an empty chunk list is handed to get_vector_store.
RebuildHandlerBuildsEmpty(index, text_file, build, rm, embed_ok, save) ==
    LET cleared == IF index.exists THEN rmtree(index, rm) ELSE index
        text_chunks == get_text_chunks(text_file)
    IN IF text_chunks.ok
       THEN LET vs == get_vector_store(text_chunks.chunks, cleared, build,
                                       embed_ok, save)
            IN [index |-> vs.index,
                status |-> IF vs.vector_store THEN "created" ELSE "not_created"]
       ELSE [index |-> cleared, status |-> "no_data"]

\* The rebuild button's handler (lines 168-189).
RebuildHandler(index, text_file, build, rm, embed_ok, save) ==
    LET cleared == IF index.exists THEN rmtree(index, rm) ELSE index
        text_chunks == get_text_chunks(text_file)
    IN IF text_chunks.ok /\ Len(text_chunks.chunks) > 0
       THEN LET vs == get_vector_store(text_chunks.chunks, cleared, build,
                                       embed_ok, save)
            IN [index |-> vs.index,
                status |-> IF vs.vector_store THEN "created" ELSE "not_created"]
       ELSE [index |-> cleared, status |-> "no_data"]

\* No call of user_input in this run.
NoResult ==
    [called |-> FALSE, question |-> "", outcome |-> "none", load_called |-> FALSE,
     searched |-> FALSE, synthesized |-> FALSE, response |-> "", passages |-> <<>>]

\* The passages of lines 135-140: the cleaned documents longer than 50.
RECURSIVE Passages(_)
Passages(docs) ==
    IF Len(docs) = 0 THEN <<>>
    ELSE LET clean_content == clean_html_tags(Head(docs))
         IN (IF Len(clean_content) > MinPassageLen THEN <<clean_content>> ELSE <<>>)
                \o Passages(Tail(docs))

\* user_input with a handler that removes an index it cannot load.
user_input_drops_unreadable(user_question, index, embed_ok) ==
    LET base == [NoResult EXCEPT !.called = TRUE, !.question = user_question]
    IN IF ~embed_ok
       THEN [result |-> [base EXCEPT !.outcome = "error"], index |-> index]
       ELSE IF ~index.exists
       THEN [result |-> [base EXCEPT !.outcome = "index_not_found"],
             index |-> index]
       ELSE IF ~index.complete
       THEN [result |-> [base EXCEPT !.outcome = "error", !.load_called = TRUE],
             index |-> NoIndex]
       ELSE [result |-> [base EXCEPT !.outcome = "answered",
                                     !.load_called = TRUE,
                                     !.searched = TRUE,
                                     !.synthesized = TRUE],
             index |-> index]

\* user_input (lines 106-143): what the call shows, and the index directory
\* it leaves.  The nearest TopK chunks are the stored ones in their order
\* when no more than TopK are stored.
user_input(user_question, index, embed_ok) ==
    LET base == [NoResult EXCEPT !.called = TRUE, !.question = user_question]
    IN IF ~embed_ok
       THEN [result |-> [base EXCEPT !.outcome = "error"], index |-> index]
       ELSE IF ~index.exists
       THEN [result |-> [base EXCEPT !.outcome = "index_not_found"],
             index |-> index]
       ELSE IF ~index.complete
       THEN [result |-> [base EXCEPT !.outcome = "error", !.load_called = TRUE],
             index |-> index]
       ELSE LET docs == SubSeq(index.chunks, 1, Min(TopK, Len(index.chunks)))
                all_context == JoinNewline(docs)
            IN [result |-> [base EXCEPT !.outcome = "answered",
                                        !.load_called = TRUE,
                                        !.searched = TRUE,
                                        !.synthesized = TRUE,
                                        !.response =
                                            generate_response(all_context,
                                                              user_question),
                                        !.passages = Passages(docs)],
                index |-> index]

(***************************************************************************)
(* The page: one script run per widget event or st.rerun().                *)
(***************************************************************************)
\* Most rebuild attempts of one behaviour.
MaxBuilds == 2

\* The example questions of lines 220-227.
Examples ==
    {"LangChain nedir?",
     "LangChain nas1l kurulur?",
     "LangChain ne i5e yarar?",
     "LangChain'in temel bile5enleri nelerdir?",
     "RAG (Retrieval Augmented Generation) nedir?",
     "LangChain ile neler yap1labilir?"}

\* What the user may leave in the text input.
TextInputs == {"", "LangChain nedir?", "merhaba"}

DocPlain ==
    "LangChain is a framework for LLM apps.\nIt has chains and agents for you."

DocHtml ==
    "<h1>LangChain</h1>\n<p>LangChain   is a framework for building apps.</p>"

DocShort == "LangChain docs"

\* data.txt: missing, or present with one of a few contents.
DataFiles ==
    {[exists |-> FALSE, content |-> ""]}
        \cup {[exists |-> TRUE, content |-> c] :
                c \in {"", " \n", DocPlain, DocHtml, DocShort}}

VARIABLES
    pc,               \* where the script is: idle, sidebar, main, examples, rerun
    event,            \* the widget event the current run serves
    question_input,   \* the text input's value
    has_current,      \* 'current_question' in st.session_state
    current_question, \* st.session_state.current_question
    faiss_index,      \* the faiss_index directory
    data_txt,         \* data.txt, which no run writes
    builds,           \* rebuild attempts so far
    last_good,        \* the latest attempt that ended "created" (0: none)
    rebuild_status,   \* how the latest attempt ended ("none": no attempt)
    result,           \* what user_input showed in this run
    last_click,       \* the latest example clicked, and how often its pending
                      \* question reached user_input
    text,             \* clean_html_tags: its argument
    clean_text,       \*   and what it returned
    cpc,              \*   "call" before the call, "done" after it
    context,          \* generate_response: its arguments
    question,
    meaningful_text,  \*   its local after line 83
    response,         \*   and what it returned
    tpc,              \*   "call" before the call, "done" after it
    doc_words,        \* the splitter: the word lengths of the text it is given
    spc,              \*   where it is: scan, merge, pop, done
    split_i,          \*   _split_text: the split the loop is at
    good_lo,          \*   _good_splits is the splits good_lo..split_i-1
    m_level,          \*   _merge_splits: merging words or characters
    m_i,              \*   the piece d its loop is at
    m_last,           \*   the last piece of its argument
    cur_lo,           \*   current_doc is the pieces cur_lo..m_i-1
    total,            \*   total
    chunks            \*   the chunks returned so far, as intervals of the text

appVars ==
    <<pc, event, question_input, has_current, current_question, faiss_index,
      data_txt, builds, last_good, rebuild_status, result, last_click>>

cleanVars == <<text, clean_text, cpc>>

tmplVars == <<context, question, meaningful_text, response, tpc>>

splitVars ==
    <<doc_words, spc, split_i, good_lo, m_level, m_i, m_last, cur_lo, total,
      chunks>>

vars == <<appVars, cleanVars, tmplVars, splitVars>>

\* The page is not running: the state of a specification of one function.
AppParked ==
    /\ pc = "off"
    /\ event = [kind |-> "none", example |-> ""]
    /\ question_input = ""
    /\ has_current = FALSE
    /\ current_question = ""
    /\ faiss_index = NoIndex
    /\ data_txt = [exists |-> FALSE, content |-> ""]
    /\ builds = 0
    /\ last_good = 0
    /\ rebuild_status = "none"
    /\ result = NoResult
    /\ last_click = [example |-> "", answered |-> 0]

CleanParked == text = "" /\ clean_text = "" /\ cpc = "off"

TmplParked ==
    /\ context = ""
    /\ question = ""
    /\ meaningful_text = ""
    /\ response = ""
    /\ tpc = "off"

SplitParked ==
    /\ doc_words = <<>>
    /\ spc = "off"
    /\ split_i = 0
    /\ good_lo = 0
    /\ m_level = "word"
    /\ m_i = 0
    /\ m_last = 0
    /\ cur_lo = 0
    /\ total = 0
    /\ chunks = <<>>

NoEvent == [kind |-> "none", example |-> ""]

Init ==
    /\ pc = "idle"
    /\ event = NoEvent
    /\ question_input = ""
    /\ has_current = FALSE
    /\ current_question = ""
    /\ faiss_index = NoIndex
    /\ data_txt \in DataFiles
    /\ builds = 0
    /\ last_good = 0
    /\ rebuild_status = "none"
    /\ result = NoResult
    /\ last_click = [example |-> "", answered |-> 0]
    /\ CleanParked
    /\ TmplParked
    /\ SplitParked

\* The top of the script up to the sidebar, lines 146-156.
StartRun(ev) ==
    /\ event' = ev
    /\ pc' = "sidebar"
    /\ has_current' = TRUE
    /\ current_question' = IF has_current THEN current_question ELSE ""
    /\ result' = NoResult

ClickRebuild ==
    /\ pc = "idle"
    /\ builds < MaxBuilds
    /\ StartRun([kind |-> "rebuild", example |-> ""])
    /\ UNCHANGED <<question_input, faiss_index, data_txt, builds, last_good,
                   rebuild_status, last_click>>
    /\ UNCHANGED <<cleanVars, tmplVars, splitVars>>

SubmitQuestion ==
    /\ pc = "idle"
    /\ \E q \in TextInputs :
         /\ q # question_input
         /\ question_input' = q
    /\ StartRun([kind |-> "text", example |-> ""])
    /\ UNCHANGED <<faiss_index, data_txt, builds, last_good, rebuild_status,
                   last_click>>
    /\ UNCHANGED <<cleanVars, tmplVars, splitVars>>

ClickExample ==
    /\ pc = "idle"
    /\ \E e \in Examples : StartRun([kind |-> "example", example |-> e])
    /\ UNCHANGED <<question_input, faiss_index, data_txt, builds, last_good,
                   rebuild_status, last_click>>
    /\ UNCHANGED <<cleanVars, tmplVars, splitVars>>

\* The run st.rerun() asked for.
Rerun ==
    /\ pc = "rerun"
    /\ StartRun([kind |-> "rerun", example |-> ""])
    /\ UNCHANGED <<question_input, faiss_index, data_txt, builds, last_good,
                   rebuild_status, last_click>>
    /\ UNCHANGED <<cleanVars, tmplVars, splitVars>>

\* The sidebar, lines 159-189.
Sidebar ==
    /\ pc = "sidebar"
    /\ pc' = "main"
    /\ IF event.kind = "rebuild"
       THEN \E rm \in RmOutcomes, embed_ok \in BOOLEAN, save \in SaveOutcomes :
              LET r == RebuildHandler(faiss_index, data_txt, builds + 1, rm,
                                      embed_ok, save)
              IN /\ faiss_index' = r.index
                 /\ rebuild_status' = r.status
                 /\ builds' = builds + 1
                 /\ last_good' = IF r.status = "created" THEN builds + 1
                                 ELSE last_good
       ELSE UNCHANGED <<faiss_index, rebuild_status, builds, last_good>>
    /\ UNCHANGED <<event, question_input, has_current, current_question,
                   data_txt, result, last_click>>
    /\ UNCHANGED <<cleanVars, tmplVars, splitVars>>

\* Main without line 212: the pending question is never cleared.
MainKeepsPending ==
    /\ pc = "main"
    /\ pc' = "examples"
    /\ LET pending == current_question # ""
           user_question == IF pending THEN current_question ELSE question_input
       IN /\ current_question' = current_question
          /\ IF user_question # ""
             THEN \E embed_ok \in BOOLEAN :
                    LET r == user_input(user_question, faiss_index, embed_ok)
                    IN /\ result' = r.result
                       /\ faiss_index' = r.index
             ELSE UNCHANGED <<result, faiss_index>>
          /\ last_click' =
                IF pending /\ user_question = last_click.example
                THEN [last_click EXCEPT !.answered = @ + 1]
                ELSE last_click
    /\ UNCHANGED <<event, question_input, has_current, data_txt, builds,
                   last_good, rebuild_status>>
    /\ UNCHANGED <<cleanVars, tmplVars, splitVars>>

\* The question handling of lines 204-215.
Main ==
    /\ pc = "main"
    /\ pc' = "examples"
    /\ LET pending == current_question # ""
           user_question == IF pending THEN current_question ELSE question_input
       IN /\ current_question' = ""
          /\ IF user_question # ""
             THEN \E embed_ok \in BOOLEAN :
                    LET r == user_input(user_question, faiss_index, embed_ok)
                    IN /\ result' = r.result
                       /\ faiss_index' = r.index
             ELSE UNCHANGED <<result, faiss_index>>
          /\ last_click' =
                IF pending /\ user_question = last_click.example
                THEN [last_click EXCEPT !.answered = @ + 1]
                ELSE last_click
    /\ UNCHANGED <<event, question_input, has_current, data_txt, builds,
                   last_good, rebuild_status>>
    /\ UNCHANGED <<cleanVars, tmplVars, splitVars>>

\* The example buttons of lines 229-232, then the footer; st.rerun() ends
\* the run at once.
ExampleButtons ==
    /\ pc = "examples"
    /\ IF event.kind = "example"
       THEN /\ current_question' = event.example
            /\ last_click' = [example |-> event.example, answered |-> 0]
            /\ pc' = "rerun"
       ELSE /\ pc' = "idle"
            /\ UNCHANGED <<current_question, last_click>>
    /\ UNCHANGED <<event, question_input, has_current, faiss_index, data_txt,
                   builds, last_good, rebuild_status, result>>
    /\ UNCHANGED <<cleanVars, tmplVars, splitVars>>

Next ==
    \/ ClickRebuild
    \/ SubmitQuestion
    \/ ClickExample
    \/ Rerun
    \/ Sidebar
    \/ Main
    \/ ExampleButtons

Spec == Init /\ [][Next]_vars

(***************************************************************************)
(* Claims about the page and the index directory.                          *)
(***************************************************************************)
\* C1 (as claimed): once a rebuild attempt has failed, at whichever step, no
\* index is persisted; and whatever is persisted is always the complete
\* result of the latest successful rebuild.
C1_FailedRebuildLeavesNoIndex ==
    /\ rebuild_status \in {"no_data", "not_created"} => ~faiss_index.exists
    /\ faiss_index.exists =>
          faiss_index.complete /\ faiss_index.build = last_good

\* A query has just been made with no index directory present.
QueriedWithoutIndex ==
    pc = "examples" /\ result.called /\ ~faiss_index.exists

\* C2 (as claimed): a question submitted while no index is persisted ends in
\* the index-not-found outcome, with no load, search or synthesis and with no
\* answer or passage.
C2_NoIndexGivesIndexNotFound ==
    QueriedWithoutIndex =>
        /\ result.outcome = "index_not_found"
        /\ ~result.load_called
        /\ ~result.searched
        /\ ~result.synthesized
        /\ result.response = ""
        /\ result.passages = <<>>

\* A run has just rebuilt from a data.txt that gives no chunk and then
\* answered the question left in the text input.
RebuiltFromNoChunksThenQueried ==
    /\ pc = "examples"
    /\ event.kind = "rebuild"
    /\ get_text_chunks(data_txt).ok
    /\ get_text_chunks(data_txt).chunks = <<>>
    /\ result.called

C9_OnlyRebuildChangesIndex ==
    [][faiss_index' # faiss_index => pc = "sidebar" /\ event.kind = "rebuild"]_vars

C9_Witness ==
    /\ pc = "examples"
    /\ result.called
    /\ result.outcome = "answered"
    /\ faiss_index.exists
    /\ builds = 1

\* C10: a clicked example is answered exactly once.  A run that reaches its
\* end leaves no pending question; the run after the click hands the
\* clicked example to user_input, whatever the text input holds; and no
\* pending question reaches user_input a second time.
C10_ExampleAnsweredOnce ==
    /\ pc = "idle" => current_question = ""
    /\ pc = "idle" /\ last_click.example # "" => last_click.answered = 1
    /\ last_click.answered <= 1
    /\ pc = "examples" /\ event.kind = "rerun" =>
          /\ result.called
          /\ result.question = last_click.example
          /\ last_click.answered = 1
          /\ current_question = ""

C10_Witness ==
    /\ pc = "idle"
    /\ event.kind = "rerun"
    /\ last_click.example # ""
    /\ question_input # ""
    /\ question_input # last_click.example
    /\ result.question = last_click.example
    /\ last_click.answered = 1

(***************************************************************************)
(* clean_html_tags on its own: one call on a text drawn from a bounded     *)
(* set.                                                                    *)
(***************************************************************************)
\* Most tokens of a text.
MaxTokens == 4

Tokens == {"<b>", "a", " ", "\n", "<", ">"}

\* The texts of at most n tokens.
RECURSIVE TokenTexts(_)
TokenTexts(n) ==
    IF n = 0 THEN {""}
    ELSE LET shorter == TokenTexts(n - 1)
         IN shorter \cup {t \o k : t \in shorter, k \in Tokens}

CleanInit ==
    /\ text \in TokenTexts(MaxTokens)
    /\ clean_text = ""
    /\ cpc = "call"
    /\ AppParked
    /\ TmplParked
    /\ SplitParked

CleanCall ==
    /\ cpc = "call"
    /\ clean_text' = clean_html_tags(text)
    /\ cpc' = "done"
    /\ UNCHANGED <<text, appVars, tmplVars, splitVars>>

SpecClean == CleanInit /\ [][CleanCall]_vars

\* The text has a substring the pattern <[^>]+> matches: a "<", then at
\* least one character and no ">", then a ">".
HasTagLike(s) ==
    \E i \in 1..Len(s) : \E j \in (i + 2)..Len(s) :
        /\ Char(s, i) = "<"
        /\ Char(s, j) = ">"
        /\ \A k \in (i + 1)..(j - 1) : Char(s, k) # ">"

\* C8: a text with no tag-like substring, and more generally one with fewer
\* than 3 tag-like matches, is returned exactly as it was, whitespace
\* included.
C8_FewTagsUnchanged ==
    cpc = "done" =>
        /\ ~HasTagLike(text) => clean_text = text
        /\ TagCount(text) < 3 => clean_text = text

C8_Witness ==
    /\ cpc = "done"
    /\ TagCount(text) = 2
    /\ CollapseSpaces(text) # text
    /\ clean_text = text

(***************************************************************************)
(* generate_response on its own: one call on a context and a question      *)
(* drawn from bounded sets.                                                *)
(***************************************************************************)
\* Most lines of a context put together from LinePool.
MaxLines == 2

\* Most kept lines of a context put together from KeptPool.
MaxKept == 6

LinePool ==
    {"", "short", "one two three", "https://example.com a b c",
     "Build Badge for the project status", "LangChain is a framework for apps",
     "  It has chains and agents too  ",
     "<b>bold</b> text with <i>tags</i> inside"}

RECURSIVE LineSeqs(_)
LineSeqs(n) ==
    IF n = 0 THEN {<<>>}
    ELSE LET shorter == LineSeqs(n - 1)
         IN shorter \cup {Append(ls, l) : ls \in shorter, l \in LinePool}

KeptPool ==
    <<"alpha is the first kept line", "beta is the second kept line",
      "gamma is the third kept line", "delta is the fourth kept line",
      "epsilon is the fifth kept line", "zeta is the sixth kept line",
      "eta is the seventh kept line", "theta is the eighth kept line">>

\* The first n lines of KeptPool, each followed by a line that is dropped.
LongContext(n) ==
    JoinNewline([i \in 1..(2 * Min(n, Len(KeptPool))) |->
                    IF i % 2 = 1 THEN KeptPool[(i + 1) \div 2] ELSE "short"])

RECURSIVE Repeat(_, _)
Repeat(s, n) == IF n = 0 THEN "" ELSE s \o Repeat(s, n - 1)

\* Contexts longer than every truncation length: one long kept line, and
\* many lines none of which is kept.
LongLine == Repeat("lorem ipsum dolor sit ", 25)

LongFallback == Repeat("one two three\n", 40)

Contexts ==
    {JoinNewline(ls) : ls \in LineSeqs(MaxLines)}
        \cup {LongContext(n) : n \in 0..MaxKept}
        \cup {LongLine, LongFallback}

Questions ==
    Examples \cup
        {"", "merhaba", "RAG NASIL", "Component kullan1m1", "paragraf",
         "Ne Demek bu"}

TmplInit ==
    /\ context \in Contexts
    /\ question \in Questions
    /\ meaningful_text = ""
    /\ response = ""
    /\ tpc = "call"
    /\ AppParked
    /\ CleanParked
    /\ SplitParked

Synthesize ==
    /\ tpc = "call"
    /\ meaningful_text' = MeaningfulText(context)
    /\ response' = generate_response(context, question)
    /\ tpc' = "done"
    /\ UNCHANGED <<context, question, appVars, cleanVars, splitVars>>

SpecTemplate == TmplInit /\ [][Synthesize]_vars

\* C3: generate_response returns a non-empty string for every context and
\* question, the empty, the blank and the all-dropped contexts included.
\* (No operation of lines 61-103 can raise on strings: slicing, split,
\* strip, lower and the two regular expressions are total.)
C3_ResponseNeverEmpty ==
    tpc = "done" => Len(response) > 0

C3_Witness ==
    /\ tpc = "done"
    /\ context = ""
    /\ question = ""
    /\ Len(response) > 0

\* The keyword groups in their order, and the truncation length and the
\* suffix of each; the sixth entry is the default template.
KeywordGroups ==
    <<{"nedir", "ne demek"}, {"nas1l", "yap1l1r", "kurulur"},
      {"ne i5e yarar", "kullan1m"}, {"bile5en", "component"}, {"rag"}>>

GroupLen == <<400, 450, 400, 380, 350, 500>>

GroupSuffix ==
    <<"... [Devam1 icin detayl1 sonuclara bak1n]",
      "... [Ad1mlar icin detayl1 sonuclar1 inceleyin]",
      "... [Kullan1m detaylar1 icin yukar1daki sonuclara bak1n]",
      "... [Bile5en listesi icin detayl1 sonuclar1 gorun]",
      "... [RAG mimarisi detaylar1 icin sonuclara bak1n]",
      "... [Detayl1 bilgi icin yukar1daki sonuclar1 okuyun]">>

MatchingGroups(q) ==
    {g \in 1..Len(KeywordGroups) :
        \E kw \in KeywordGroups[g] : Contains(Lower(q), kw)}

FirstGroup(q) ==
    IF MatchingGroups(q) = {} THEN Len(KeywordGroups) + 1
    ELSE CHOOSE g \in MatchingGroups(q) : \A h \in MatchingGroups(q) : g <= h

\* C4: the template is that of the first keyword group, in the fixed order,
\* with a keyword in the lower-cased question (the default when there is
\* none), and the response is the candidate text cut to that group's length,
\* which lies between 300 and 500, followed by that group's suffix.
C4_FirstMatchingGroupWins ==
    tpc = "done" =>
        LET g == FirstGroup(question)
        IN /\ GroupLen[g] \in 300..500
           /\ response = Slice(meaningful_text, GroupLen[g]) \o GroupSuffix[g]
           /\ Len(response) <= GroupLen[g] + Len(GroupSuffix[g])

C4_Witness ==
    /\ tpc = "done"
    /\ Cardinality(MatchingGroups(question)) > 1
    /\ Len(meaningful_text) > GroupLen[FirstGroup(question)]
    /\ response = Slice(meaningful_text, 400) \o GroupSuffix[1]

\* The four tests of the claim on a trimmed line.
IsMeaningful(line) ==
    /\ Len(line) >= 10
    /\ ~StartsWith(line, "http")
    /\ ~Contains(Lower(line), "badge")
    /\ WordCount(line) > 3

\* The lines of the cleaned context, trimmed.
TrimmedLines(c) ==
    LET ls == SplitLines(clean_html_tags(c))
    IN [i \in 1..Len(ls) |-> Strip(ls[i])]

KeptLines(c) == SelectSeq(TrimmedLines(c), IsMeaningful)

FirstFiveJoined(c) ==
    JoinSpace(SubSeq(KeptLines(c), 1, Min(5, Len(KeptLines(c)))))

chunk_overlap == 200

\* Most words of a text.
MaxWords == 3

\* A word that fits the overlap, one that does not, one longer than a chunk.
WordLens == {150, 450, 1050}

RECURSIVE WordSeqs(_)
WordSeqs(n) ==
    IF n = 0 THEN {<<>>}
    ELSE LET shorter == WordSeqs(n - 1)
         IN shorter \cup {Append(w, l) : w \in shorter, l \in WordLens}

\* Split k at the separator " ": word k, after the first with its space.
SplitLen(w, k) == IF k = 1 THEN w[1] ELSE w[k] + 1

RECURSIVE SplitStart(_, _)
SplitStart(w, k) ==
    IF k = 1 THEN 0 ELSE SplitStart(w, k - 1) + SplitLen(w, k - 1)

TextLen(w) ==
    IF Len(w) = 0 THEN 0 ELSE SplitStart(w, Len(w)) + SplitLen(w, Len(w))

\* The character at position o is a space.
SpaceAt(w, o) == \E k \in 2..Len(w) : SplitStart(w, k) = o

\* The pieces _merge_splits is given: splits at " " (numbered as the words)
\* or single characters (numbered from 1 through the text).
PieceLen(level, i) == IF level = "char" THEN 1 ELSE SplitLen(doc_words, i)

PieceStart(level, i) ==
    IF level = "char" THEN i - 1 ELSE SplitStart(doc_words, i)

\* _join_docs on the pieces lo..hi: their text, trimmed, as an interval
\* [start, end) of the text; nothing is appended when it is empty.
JoinDocs(level, lo, hi) ==
    LET a == PieceStart(level, lo)
        b == PieceStart(level, hi) + PieceLen(level, hi)
        a2 == IF a < b /\ SpaceAt(doc_words, a) THEN a + 1 ELSE a
        b2 == IF a2 < b /\ SpaceAt(doc_words, b - 1) THEN b - 1 ELSE b
    IN IF a2 < b2 THEN <<[start |-> a2, end |-> b2]>> ELSE <<>>

SplitInit ==
    /\ doc_words \in WordSeqs(MaxWords)
    /\ spc = "scan"
    /\ split_i = 1
    /\ good_lo = 1
    /\ m_level = "word"
    /\ m_i = 0
    /\ m_last = 0
    /\ cur_lo = 0
    /\ total = 0
    /\ chunks = <<>>
    /\ AppParked
    /\ CleanParked
    /\ TmplParked

\* A call of _merge_splits on the pieces first..last.
StartMerge(level, first, last) ==
    /\ spc' = "merge"
    /\ m_level' = level
    /\ m_i' = first
    /\ m_last' = last
    /\ cur_lo' = first
    /\ total' = 0

\* _split_text: one iteration of its loop over the splits.  A text with no
\* space is split into characters at once; a split of chunk_size or more
\* has the good splits before it merged first and is then split into
\* characters.
ScanStep ==
    /\ spc = "scan"
    /\ split_i <= Len(doc_words)
    /\ IF Len(doc_words) = 1
       THEN /\ StartMerge("char", 1, TextLen(doc_words))
            /\ split_i' = 2
            /\ good_lo' = 2
       ELSE IF SplitLen(doc_words, split_i) < chunk_size
       THEN /\ split_i' = split_i + 1
            /\ UNCHANGED <<spc, good_lo, m_level, m_i, m_last, cur_lo, total>>
       ELSE IF good_lo < split_i
       THEN /\ StartMerge("word", good_lo, split_i - 1)
            /\ good_lo' = split_i
            /\ UNCHANGED split_i
       ELSE /\ StartMerge("char", SplitStart(doc_words, split_i) + 1,
                          SplitStart(doc_words, split_i)
                              + SplitLen(doc_words, split_i))
            /\ split_i' = split_i + 1
            /\ good_lo' = split_i + 1
    /\ UNCHANGED <<doc_words, chunks, appVars, cleanVars, tmplVars>>

\* _split_text after its loop: the good splits left are merged.
ScanEnd ==
    /\ spc = "scan"
    /\ split_i > Len(doc_words)
    /\ IF good_lo < split_i
       THEN /\ StartMerge("word", good_lo, split_i - 1)
            /\ good_lo' = split_i
       ELSE /\ spc' = "done"
            /\ UNCHANGED <<good_lo, m_level, m_i, m_last, cur_lo, total>>
    /\ UNCHANGED <<doc_words, split_i, chunks, appVars, cleanVars, tmplVars>>

\* _merge_splits: one iteration of its loop over the pieces, up to the
\* while loop when the piece does not fit.
MergeStep ==
    /\ spc = "merge"
    /\ m_i <= m_last
    /\ IF total + PieceLen(m_level, m_i) > chunk_size /\ cur_lo < m_i
       THEN /\ chunks' = chunks \o JoinDocs(m_level, cur_lo, m_i - 1)
            /\ spc' = "pop"
            /\ UNCHANGED <<m_i, total>>
       ELSE /\ total' = total + PieceLen(m_level, m_i)
            /\ m_i' = m_i + 1
            /\ UNCHANGED <<spc, chunks>>
    /\ UNCHANGED <<doc_words, split_i, good_lo, m_level, m_last, cur_lo,
                   appVars, cleanVars, tmplVars>>

\* PopStep keeping up to chunk_size, not chunk_overlap, of the chunk before.
PopStepKeepsChunk ==
    /\ spc = "pop"
    /\ IF \/ total > chunk_size
          \/ (total + PieceLen(m_level, m_i) > chunk_size /\ total > 0)
       THEN /\ total' = total - PieceLen(m_level, cur_lo)
            /\ cur_lo' = cur_lo + 1
            /\ UNCHANGED <<spc, m_i>>
       ELSE /\ total' = total + PieceLen(m_level, m_i)
            /\ m_i' = m_i + 1
            /\ spc' = "merge"
            /\ UNCHANGED cur_lo
    /\ UNCHANGED <<doc_words, split_i, good_lo, m_level, m_last, chunks,
                   appVars, cleanVars, tmplVars>>

\* _merge_splits: one iteration of its while loop, which drops pieces from
\* the front of current_doc, and after it the append of the piece.
PopStep ==
    /\ spc = "pop"
    /\ IF \/ total > chunk_overlap
          \/ (total + PieceLen(m_level, m_i) > chunk_size /\ total > 0)
       THEN /\ total' = total - PieceLen(m_level, cur_lo)
            /\ cur_lo' = cur_lo + 1
            /\ UNCHANGED <<spc, m_i>>
       ELSE /\ total' = total + PieceLen(m_level, m_i)
            /\ m_i' = m_i + 1
            /\ spc' = "merge"
            /\ UNCHANGED cur_lo
    /\ UNCHANGED <<doc_words, split_i, good_lo, m_level, m_last, chunks,
                   appVars, cleanVars, tmplVars>>

\* _merge_splits after its loop: what is left is the last chunk.
MergeEnd ==
    /\ spc = "merge"
    /\ m_i > m_last
    /\ chunks' = chunks \o (IF cur_lo < m_i
                            THEN JoinDocs(m_level, cur_lo, m_i - 1)
                            ELSE <<>>)
    /\ spc' = "scan"
    /\ UNCHANGED <<doc_words, split_i, good_lo, m_level, m_i, m_last, cur_lo,
                   total, appVars, cleanVars, tmplVars>>

SplitNext ==
    \/ ScanStep
    \/ ScanEnd
    \/ MergeStep
    \/ PopStep
    \/ MergeEnd

SpecSplit == SplitInit /\ [][SplitNext]_vars

\* The characters two chunks share.
Overlap(c, d) == Max(0, c.end - d.start)

\* C6 (as claimed): every chunk has at most 1000 characters, and every two
\* consecutive chunks overlap by exactly 200 characters, except possibly the
\* last two of the document.
C6_OverlapExactly200 ==
    spc = "done" =>
        /\ \A i \in 1..Len(chunks) : chunks[i].end - chunks[i].start <= 1000
        /\ \A i \in 1..(Len(chunks) - 2) :
              Overlap(chunks[i], chunks[i + 1]) = 200

\* C6 (amended): every chunk has at most 1000 characters, and every two
\* consecutive chunks overlap by at most 200 characters; the chunks come in
\* the order of the text.
C6_OverlapAtMost200 ==
    /\ \A i \in 1..Len(chunks) : chunks[i].end - chunks[i].start <= 1000
    /\ \A i \in 1..(Len(chunks) - 1) :
          /\ Overlap(chunks[i], chunks[i + 1]) <= 200
          /\ chunks[i].start < chunks[i + 1].start

C6_Witness ==
    /\ spc = "done"
    /\ \E i \in 1..(Len(chunks) - 1) :
          /\ Overlap(chunks[i], chunks[i + 1]) > 0
          /\ Overlap(chunks[i], chunks[i + 1]) < 200
====
